---- MODULE Spec2Model ----
(***************************************************************************)
(* The transcript scoring engine (src/src/lib/aiAnalysis.ts,               *)
(* TranscriptAnalyzer) and the callers that invoke it.                     *)
(*                                                                         *)
(* A transcript text is a sequence of symbols: a symbol is one word of the *)
(* vocabulary, one terminator character or one whitespace character.  Two  *)
(* word symbols are never adjacent (they would read as one other word).    *)
(* Numbers that the code computes as doubles are kept exact: an integer    *)
(* where the value is one, a fraction [num, den] for clarityScore.  On the *)
(* values the analyzer can produce the exact rounding and the rounding of  *)
(* the doubles agree.                                                      *)
(***************************************************************************)
EXTENDS Integers, Sequences, FiniteSets, TLC

VARIABLES
    sentiment,   \* the module-level Sentiment object: its label table (word -> polarity)
    outline,     \* how the caller composed the text: its sentences, the words of each
    pending,     \* the argument the caller is about to pass to analyzeTranscript
    earlier,     \* an earlier analyzeTranscript call, kept for comparison (or NoCall)
    last,        \* the latest analyzeTranscript call: its argument and its settled promise
    appended,    \* the words appended to earlier's text to make last's text
    db,          \* the database: transcripts' status and transcript_text, analysis_results' rows
    requests,    \* the POST /api/process requests: where each handler stands
    jobs,        \* the background jobs, one per request that started one
    response     \* the response to the latest GET of a transcript

callVars == <<outline, pending, earlier, last, appended, response>>
jobVars == <<db, requests, jobs>>
vars == <<sentiment, outline, pending, earlier, last, appended, db, requests, jobs, response>>

---------------------------------------------------------------------------
(* Bounds *)

\* longest text, in symbols, that the specification Spec analyzes
MaxLen == 5
\* longest text, in symbols, of the calls whose histories SpecHistory explores
MaxHistLen == 1
\* longest seed text, in symbols, that SpecAppend starts from
MaxSeedLen == 1
\* most words SpecAppend appends to a seed text
MaxAppends == 4
\* the POST /api/process requests SpecJobs sends
MaxRequests == 2
\* the rows of the transcripts table
NumTranscripts == 1
\* most words of a sentence of a prose outline
MaxWords == 31
\* most words of a text without punctuation
MaxLongWords == 152
\* most sentences of a dialogue outline
MaxSentences == 7
\* most words of a topic outline
MaxTopicWords == 18
\* most occurrences of one interactive word in an engaged outline
MaxOccurrences == 6
\* most exclamation marks that end a sentence of an engaged outline
MaxMarks == 7
\* most questions that follow the sentence of an engaged outline
MaxQuestions == 7

---------------------------------------------------------------------------
(* Texts *)

Whitespace == {" "}
Terminators == {".", "?", "!"}
\* the words of the texts that are enumerated symbol by symbol
Vocabulary == {"great", "bad", "fraud", "not", "you"}
Symbols == Vocabulary \cup Terminators \cup Whitespace

\* the further words of the texts that are composed from an outline
OutlineWords ==
    {"You", "we", "us", "our", "together", "think", "feel", "believe",
     "what", "was", "played",
     "Fraud", "market", "Market", "budget", "client", "report", "project",
     "meeting", "contract", "invoice", "product", "tax",
     "Alice", "Paris", "Rio", "Google", "IBM"}

IsWord(s) == s \in Vocabulary \cup OutlineWords

\* String.prototype.toLowerCase on one symbol
ToLowerCase(s) ==
    CASE s = "You"    -> "you"
      [] s = "Fraud"  -> "fraud"
      [] s = "Market" -> "market"
      [] s = "Alice"  -> "alice"
      [] s = "Paris"  -> "paris"
      [] s = "Rio"    -> "rio"
      [] s = "Google" -> "google"
      [] s = "IBM"    -> "ibm"
      [] OTHER        -> s

\* String.prototype.toLowerCase on a text
LowerCaseText(text) == [i \in 1..Len(text) |-> ToLowerCase(text[i])]

\* no two word symbols are adjacent
WellFormed(text) ==
    \A i \in 1..(Len(text) - 1) : ~(IsWord(text[i]) /\ IsWord(text[i + 1]))

SeqsUpTo(S, n) == UNION {[1..k -> S] : k \in 0..n}

TextsUpTo(n) == {t \in SeqsUpTo(Symbols, n) : WellFormed(t)}

\* the arguments a caller can pass: a string, or (from an untyped caller) null / undefined
Str(text) == [type |-> "string", text |-> text]
Null == [type |-> "null", text |-> <<>>]
Undefined == [type |-> "undefined", text |-> <<>>]

---------------------------------------------------------------------------
(* Arithmetic *)

Max(a, b) == IF a >= b THEN a ELSE b
Min(a, b) == IF a <= b THEN a ELSE b
Abs(a) == IF a >= 0 THEN a ELSE -a

\* Math.round(n / d) for d > 0: the nearest integer, a half rounding up
MathRound(n, d) == (2 * n + d) \div (2 * d)

---------------------------------------------------------------------------
(* The sentiment package, as aiAnalysis.ts uses it *)

\* AFINN polarities of the vocabulary's listed words (new Sentiment() loads the table)
AfinnLabels == [w \in {"great", "bad", "fraud"} |->
                  CASE w = "great" -> 3
                    [] w = "bad"   -> -3
                    [] w = "fraud" -> -4]

\* the words after which the package flips the sign of the next token's polarity
Negators == {"not"}

\* tokenize(): lower-cased, punctuation replaced by blanks, split on blanks
Tokenize(text) == LowerCaseText(SelectSeq(text, IsWord))

\* negation reaching over two tokens instead of one
TokenScore_WideNegation(labels, tokens, i) ==
    IF tokens[i] \notin DOMAIN labels THEN 0
    ELSE IF (i > 1 /\ tokens[i - 1] \in Negators) \/ (i > 2 /\ tokens[i - 2] \in Negators)
         THEN -labels[tokens[i]]
    ELSE labels[tokens[i]]
\* polarity of token i: looked up in the label table, negated after a negator
TokenScore(labels, tokens, i) ==
    IF tokens[i] \notin DOMAIN labels THEN 0
    ELSE IF i > 1 /\ tokens[i - 1] \in Negators THEN -labels[tokens[i]]
    ELSE labels[tokens[i]]

\* the sum of the polarities of the tokens lo..hi, taken by halves
RECURSIVE SumScoresRange(_, _, _, _)
SumScoresRange(labels, tokens, lo, hi) ==
    IF lo > hi THEN 0
    ELSE IF lo = hi THEN TokenScore(labels, tokens, lo)
    ELSE SumScoresRange(labels, tokens, lo, (lo + hi) \div 2)
         + SumScoresRange(labels, tokens, (lo + hi) \div 2 + 1, hi)

\* score += tokenScore for each of the tokens 1..i
SumScores(labels, tokens, i) == SumScoresRange(labels, tokens, 1, i)

\* the tokens among 1..i whose polarity has the sign, by their place
MatchedAt(labels, tokens, i, sign) ==
    SelectSeq([k \in 1..i |-> k], LAMBDA k : sign * TokenScore(labels, tokens, k) > 0)

\* the matches collected from the first token to the last
MatchedWords_Forward(labels, tokens, i, sign) ==
    LET at == MatchedAt(labels, tokens, i, sign)
    IN  [j \in 1..Len(at) |-> tokens[at[j]]]
\* the package walks the tokens from the last to the first (while (i--)) and
\* pushes each match: the last match comes first
MatchedWords(labels, tokens, i, sign) ==
    LET at == MatchedAt(labels, tokens, i, sign)
    IN  [j \in 1..Len(at) |-> tokens[at[Len(at) + 1 - j]]]

\* sentiment.analyze(arg): undefined is read as '', null makes tokenize throw
SentimentAnalyze(labels, arg) ==
    IF arg.type = "null"
    THEN [threw |-> TRUE, score |-> 0, positive |-> <<>>, negative |-> <<>>]
    ELSE LET tokens == Tokenize(arg.text)
         IN  [threw    |-> FALSE,
              score    |-> SumScores(labels, tokens, Len(tokens)),
              positive |-> MatchedWords(labels, tokens, Len(tokens), 1),
              negative |-> MatchedWords(labels, tokens, Len(tokens), -1)]

\* the label table after a call: a call made with no options registers no
\* extra labels, so the table is as before
SentimentAfterAnalyze_Extras(labels, arg) ==
    [w \in DOMAIN labels |-> IF w \in {arg.text[i] : i \in 1..Len(arg.text)}
                             THEN 0 ELSE labels[w]]
SentimentAfterAnalyze(labels, arg) == labels

---------------------------------------------------------------------------
(* The compromise package, as aiAnalysis.ts uses it: nlp(text) and the     *)
(* views of the document the scorers read                                  *)

\* where the maximal runs of non-whitespace symbols start and end
ChunkStarts(text) ==
    SelectSeq([i \in 1..Len(text) |-> i],
              LAMBDA i : text[i] \notin Whitespace /\ (i = 1 \/ text[i - 1] \in Whitespace))
ChunkEnds(text) ==
    SelectSeq([i \in 1..Len(text) |-> i],
              LAMBDA i : text[i] \notin Whitespace
                         /\ (i = Len(text) \/ text[i + 1] \in Whitespace))

\* the maximal runs of non-whitespace symbols, in order
Chunks(text) ==
    LET starts == ChunkStarts(text)
        ends == ChunkEnds(text)
    IN  [k \in 1..Len(starts) |-> SubSeq(text, starts[k], ends[k])]

HasLetter(chunk) == \E i \in 1..Len(chunk) : IsWord(chunk[i])

EndsSentence(chunk) == chunk[Len(chunk)] \in Terminators

\* a sentence ends after a chunk that ends in a terminator; a piece without
\* any letter is joined to the sentence that follows it: chunk k closes a
\* sentence when it ends in a terminator and a chunk with a letter precedes
\* it (or is it) with no terminator between the two
ClosesSentence(chunks, k) ==
    /\ EndsSentence(chunks[k])
    /\ \E j \in 1..k : /\ HasLetter(chunks[j])
                        /\ \A m \in j..(k - 1) : ~EndsSentence(chunks[m])

\* doc.sentences(): each sentence is its sequence of chunks
Sentences(text) ==
    LET chunks == Chunks(text)
        closes == SelectSeq([k \in 1..Len(chunks) |-> k], LAMBDA k : ClosesSentence(chunks, k))
        n == Len(closes)
        rest == IF n = 0 THEN 1 ELSE closes[n] + 1
    IN  [s \in 1..n |-> SubSeq(chunks, IF s = 1 THEN 1 ELSE closes[s - 1] + 1, closes[s])]
        \o (IF rest <= Len(chunks) THEN <<SubSeq(chunks, rest, Len(chunks))>> ELSE <<>>)

\* the chunks lo..hi put end to end, taken by halves
RECURSIVE FlattenRange(_, _, _)
FlattenRange(chunks, lo, hi) ==
    IF lo > hi THEN <<>>
    ELSE IF lo = hi THEN chunks[lo]
    ELSE FlattenRange(chunks, lo, (lo + hi) \div 2)
         \o FlattenRange(chunks, (lo + hi) \div 2 + 1, hi)

Flatten(chunks) == FlattenRange(chunks, 1, Len(chunks))

\* sentence.wordCount(): the terms of the sentence that have text
SentenceWordCount(sentence) == Cardinality({k \in 1..Len(sentence) : HasLetter(sentence[k])})

RECURSIVE SumWordCounts(_)
SumWordCounts(sentences) ==
    IF sentences = <<>> THEN 0
    ELSE SentenceWordCount(Head(sentences)) + SumWordCounts(Tail(sentences))

\* doc.wordCount()
DocWordCount(text) == SumWordCounts(Sentences(text))

\* the tagger: the common nouns among the words, and the named entities
CommonNouns ==
    {"fraud", "Fraud", "market", "Market", "budget", "client", "report", "project",
     "meeting", "contract", "invoice", "product", "tax"}
People == {"Alice"}
Places == {"Paris", "Rio"}
Organizations == {"Google", "IBM"}
\* a person, a place and an organization are nouns too
Nouns == CommonNouns \cup People \cup Places \cup Organizations
\* the words tagged as question words, and the verb forms that open a
\* question when a noun follows them
QuestionWords == {"what"}
QuestionOpeners == {"was"}

\* the words of a sentence, in order
SentenceWords(sentence) == SelectSeq(Flatten(sentence), IsWord)

\* the punctuation that follows the last word of a sentence
EndPunctuation(sentence) ==
    LET flat == Flatten(sentence)
        lastWord == IF \E i \in 1..Len(flat) : IsWord(flat[i])
                    THEN CHOOSE i \in 1..Len(flat) :
                           IsWord(flat[i]) /\ \A j \in (i + 1)..Len(flat) : ~IsWord(flat[j])
                    ELSE 0
    IN  {flat[j] : j \in (lastWord + 1)..Len(flat)}

\* a sentence that the package guesses to be a question from its wording: it
\* does not end in an ellipsis, and it starts with a question word or with a
\* verb form and a noun
GuessedQuestion(sentence) ==
    LET flat == Flatten(sentence)
        words == SentenceWords(sentence)
    IN  /\ ~(Len(flat) >= 2 /\ flat[Len(flat)] = "." /\ flat[Len(flat) - 1] = ".")
        /\ Len(words) > 0
        /\ \/ words[1] \in QuestionWords
           \/ Len(words) > 1 /\ words[1] \in QuestionOpeners /\ words[2] \in Nouns

\* doc.questions(): the sentences whose end punctuation holds a question
\* mark, and those without one that are guessed to be questions
Questions(text) ==
    SelectSeq(Sentences(text), LAMBDA s : "?" \in EndPunctuation(s) \/ GuessedQuestion(s))

\* sentence.text().includes('?')
IncludesQuestionMark(sentence) ==
    \E i \in 1..Len(Flatten(sentence)) : Flatten(sentence)[i] = "?"

\* the number of symbols of a text that are c
CountSymbol(text, c) == Cardinality({i \in 1..Len(text) : text[i] = c})

\* doc.nouns().out('array') and the like: the occurrences, in order
Tagged(text, tag) == SelectSeq(text, LAMBDA s : s \in tag)

\* the characters of a word: its length (noun.length)
WordLength(w) ==
    CASE w = "great" -> 5
      [] w = "bad"   -> 3
      [] w = "fraud" -> 5
      [] w = "not"   -> 3
      [] w = "you"   -> 3
      [] w \in {"we", "us"} -> 2
      [] w \in {"You", "our", "was", "tax", "IBM", "Rio"} -> 3
      [] w \in {"what", "feel"} -> 4
      [] w \in {"Fraud", "Alice", "Paris", "think"} -> 5
      [] w \in {"played", "market", "Market", "budget", "client", "report", "Google"} -> 6
      [] w \in {"project", "meeting", "invoice", "product", "believe"} -> 7
      [] w \in {"contract", "together"} -> 8
      [] OTHER       -> 1

\* /\b(is|was|are|were|being|been)\s+\w+ed\b/ on the sentence's text: the
\* forms of "to be" among the words, and the words that end in "ed"
BeForms == {"was"}
EdWords == {"played"}
MatchesPassive(sentence) ==
    \E k \in 1..(Len(sentence) - 1) :
        /\ sentence[k][Len(sentence[k])] \in BeForms
        /\ sentence[k + 1][1] \in EdWords

---------------------------------------------------------------------------
(* TranscriptAnalyzer (src/src/lib/aiAnalysis.ts) *)

\* Math.max(0, Math.min(100, (score + 10) * 5)), without its lower clamp
normalizeSentimentScore_NoFloor(score) == Min(100, (score + 10) * 5)
\* the clamp with Math.min and Math.max exchanged
normalizeSentimentScore_SwappedClamp(score) == Min(0, Max(100, (score + 10) * 5))
normalizeSentimentScore(score) == Max(0, Min(100, (score + 10) * 5))

\* the top band entered only above 70
getSentimentLabel_Above70(score) ==
    IF score > 70 THEN "Very Positive"
    ELSE IF score >= 55 THEN "Positive"
    ELSE IF score >= 45 THEN "Neutral"
    ELSE IF score >= 30 THEN "Negative"
    ELSE "Very Negative"
getSentimentLabel(score) ==
    IF score >= 70 THEN "Very Positive"
    ELSE IF score >= 55 THEN "Positive"
    ELSE IF score >= 45 THEN "Neutral"
    ELSE IF score >= 30 THEN "Negative"
    ELSE "Very Negative"

\* a Set keeps insertion order and drops what it already holds
RECURSIVE Dedup(_, _)
Dedup(seq, acc) ==
    IF seq = <<>> THEN acc
    ELSE Dedup(Tail(seq),
               IF \E i \in 1..Len(acc) : acc[i] = Head(seq) THEN acc ELSE Append(acc, Head(seq)))

\* every topic returned, without slice(0, 10)
extractKeyTopics_NoSlice(text) ==
    LET nouns == SelectSeq(Tagged(text, Nouns), LAMBDA n : WordLength(n) > 3)
        entities == Tagged(text, People) \o Tagged(text, Places) \o Tagged(text, Organizations)
    IN  Dedup(LowerCaseText(nouns) \o LowerCaseText(entities), <<>>)
\* the named entities added before the nouns
extractKeyTopics_EntitiesFirst(text) ==
    LET nouns == SelectSeq(Tagged(text, Nouns), LAMBDA n : WordLength(n) > 3)
        entities == Tagged(text, People) \o Tagged(text, Places) \o Tagged(text, Organizations)
        topics == Dedup(LowerCaseText(entities) \o LowerCaseText(nouns), <<>>)
    IN  SubSeq(topics, 1, Min(Len(topics), 10))
extractKeyTopics(text) ==
    LET nouns == SelectSeq(Tagged(text, Nouns), LAMBDA n : WordLength(n) > 3)
        entities == Tagged(text, People) \o Tagged(text, Places) \o Tagged(text, Organizations)
        topics == Dedup(LowerCaseText(nouns) \o LowerCaseText(entities), <<>>)
    IN  SubSeq(topics, 1, Min(Len(topics), 10))

extractNamedEntities(text) ==
    Dedup(Tagged(text, People) \o Tagged(text, Places) \o Tagged(text, Organizations), <<>>)

\* text.split(/\s+/).length: one more than the number of whitespace runs
SplitLength(text) ==
    1 + Cardinality({i \in 1..Len(text) :
                        text[i] \in Whitespace /\ (i = 1 \/ text[i - 1] \notin Whitespace)})

\* text.split on a value that is no string throws a TypeError.
\* wordCount / Math.max(wordCount / 150, 1), rounded
calculateSpeakingPace_Guarded(arg) ==
    LET wordCount == SplitLength(arg.text)
    IN  [threw |-> FALSE,
         value |-> IF wordCount <= 150 THEN MathRound(wordCount, 1)
                   ELSE MathRound(wordCount * 150, wordCount)]
\* the minutes not floored at 1: wordCount / (wordCount / 150)
calculateSpeakingPace_NoFloor(arg) ==
    IF arg.type # "string" THEN [threw |-> TRUE, value |-> 0]
    ELSE LET wordCount == SplitLength(arg.text)
         IN  [threw |-> FALSE, value |-> MathRound(wordCount * 150, wordCount)]
calculateSpeakingPace(arg) ==
    IF arg.type # "string" THEN [threw |-> TRUE, value |-> 0]
    ELSE LET wordCount == SplitLength(arg.text)
         IN  [threw |-> FALSE,
              value |-> IF wordCount <= 150 THEN MathRound(wordCount, 1)
                        ELSE MathRound(wordCount * 150, wordCount)]

\* Math.max(0, 100 - (|pace - 150| / 100) * 100), without its lower clamp
normalizeSpeakingPace_NoFloor(pace) == 100 - Abs(pace - 150)
\* the deviation taken with its sign, not as Math.abs
normalizeSpeakingPace_NoAbs(pace) == Max(0, 100 - (pace - 150))
normalizeSpeakingPace(pace) == Max(0, 100 - Abs(pace - 150))

\* the two length awards tested one after the other, not one or else the other
SentencePoints_BothAwards(sentence) ==
    LET words == SentenceWordCount(sentence)
    IN  (IF words >= 10 /\ words <= 20 THEN 2 ELSE 0)
        + (IF words >= 5 /\ words < 30 THEN 1 ELSE 0)
        + (IF ~MatchesPassive(sentence) THEN 1 ELSE 0)
\* the clarity points of one sentence
SentencePoints(sentence) ==
    LET words == SentenceWordCount(sentence)
    IN  (IF words >= 10 /\ words <= 20 THEN 2
         ELSE IF words >= 5 /\ words < 30 THEN 1
         ELSE 0)
        + (IF ~MatchesPassive(sentence) THEN 1 ELSE 0)

RECURSIVE SumPoints(_)
SumPoints(sentences) ==
    IF sentences = <<>> THEN 0
    ELSE SentencePoints(Head(sentences)) + SumPoints(Tail(sentences))

\* the points divided by the number of sentences, not by three times it
calculateClarityScore_PerSentence(text) ==
    LET sentences == Sentences(text)
        totalSentences == Len(sentences)
        clarityPoints == SumPoints(sentences)
    IN  IF totalSentences = 0 THEN [num |-> 0, den |-> 1]
        ELSE IF clarityPoints * 100 > 100 * totalSentences THEN [num |-> 100, den |-> 1]
        ELSE [num |-> clarityPoints * 100, den |-> totalSentences]
\* the score as a fraction: min(100, clarityPoints / (totalSentences * 3) * 100)
calculateClarityScore(text) ==
    LET sentences == Sentences(text)
        totalSentences == Len(sentences)
        clarityPoints == SumPoints(sentences)
    IN  IF totalSentences = 0 THEN [num |-> 0, den |-> 1]
        ELSE IF clarityPoints * 100 > 100 * (totalSentences * 3) THEN [num |-> 100, den |-> 1]
        ELSE [num |-> clarityPoints * 100, den |-> totalSentences * 3]

InteractiveWords == <<"you", "we", "us", "our", "together", "think", "feel", "believe">>

\* one cap of 10 for all the interactive words together
InteractivePoints_SharedCap(text, k) ==
    Min(2 * Cardinality({i \in 1..Len(text) :
                           \E j \in 1..k : ToLowerCase(text[i]) = InteractiveWords[j]}), 10)
RECURSIVE InteractivePoints(_, _)
InteractivePoints(text, k) ==
    IF k = 0 THEN 0
    ELSE Min(CountSymbol(LowerCaseText(text), InteractiveWords[k]) * 2, 10)
         + InteractivePoints(text, k - 1)

calculateEngagementScore(text) ==
    LET questionCount == Len(Questions(text))
        exclamationCount == CountSymbol(text, "!")
    IN  Min(100, Min(questionCount * 5, 30)
                 + Min(exclamationCount * 3, 20)
                 + InteractivePoints(text, Len(InteractiveWords)))

\* without the early return for a text of no question
calculateQuestionRelevance_NoDefault(text) ==
    LET questions == Questions(text)
        statements == SelectSeq(Sentences(text), LAMBDA s : ~IncludesQuestionMark(s))
    IN  Min(100, 70 + (IF Len(questions) > 0
                          /\ Len(statements) >= 2 * Len(questions)
                          /\ Len(statements) <= 5 * Len(questions)
                       THEN 20 ELSE 0))
\* the bonus only for a ratio strictly between 2 and 5
calculateQuestionRelevance_StrictRatio(text) ==
    LET questions == Questions(text)
        statements == SelectSeq(Sentences(text), LAMBDA s : ~IncludesQuestionMark(s))
    IN  IF Len(questions) = 0 THEN 75
        ELSE Min(100, 70 + (IF Len(statements) > 2 * Len(questions)
                               /\ Len(statements) < 5 * Len(questions)
                            THEN 20 ELSE 0))
\* a bonus of 30 for a good ratio
calculateQuestionRelevance_LargerBonus(text) ==
    LET questions == Questions(text)
        statements == SelectSeq(Sentences(text), LAMBDA s : ~IncludesQuestionMark(s))
    IN  IF Len(questions) = 0 THEN 75
        ELSE Min(100, 70 + (IF Len(statements) >= 2 * Len(questions)
                               /\ Len(statements) <= 5 * Len(questions)
                            THEN 30 ELSE 0))
calculateQuestionRelevance(text) ==
    LET questions == Questions(text)
        statements == SelectSeq(Sentences(text), LAMBDA s : ~IncludesQuestionMark(s))
    IN  IF Len(questions) = 0 THEN 75
        ELSE Min(100, 70 + (IF Len(statements) >= 2 * Len(questions)
                               /\ Len(statements) <= 5 * Len(questions)
                            THEN 20 ELSE 0))

\* the weights with clarity and engagement exchanged
calculateOverallScore_SwappedWeights(scores) ==
    MathRound((20 * scores.sentimentScore + 25 * scores.engagementScore
               + 20 * scores.questionRelevanceScore + 15 * scores.speakingPace)
              * scores.clarityScore.den + 20 * scores.clarityScore.num,
              100 * scores.clarityScore.den)
\* the weight that the scoring_criteria table gives a criterion, in hundredths
ConfiguredWeight(name) ==
    LET rows == {i \in DOMAIN db.criteria :
                    db.criteria[i].name = name /\ db.criteria[i].enabled}
    IN  IF rows = {} THEN 0 ELSE db.criteria[CHOOSE i \in rows : TRUE].weight
\* the weighted sum with the weights of the scoring_criteria table
calculateOverallScore_Configured(scores) ==
    MathRound((ConfiguredWeight("sentiment_analysis") * scores.sentimentScore
               + ConfiguredWeight("engagement") * scores.engagementScore
               + ConfiguredWeight("question_relevance") * scores.questionRelevanceScore
               + ConfiguredWeight("speaking_pace") * scores.speakingPace)
              * scores.clarityScore.den
              + ConfiguredWeight("clarity") * scores.clarityScore.num,
              100 * scores.clarityScore.den)
\* Math.round of the weighted sum, the weights in hundredths
calculateOverallScore(scores) ==
    MathRound((20 * scores.sentimentScore + 20 * scores.engagementScore
               + 20 * scores.questionRelevanceScore + 15 * scores.speakingPace)
              * scores.clarityScore.den + 25 * scores.clarityScore.num,
              100 * scores.clarityScore.den)

calculateAvgWordsPerSentence(text) ==
    IF Len(Sentences(text)) = 0 THEN 0
    ELSE MathRound(DocWordCount(text), Len(Sentences(text)))

\* the promise an async function returns: fulfilled with a value, or rejected
\* with what was thrown
NoValue == [none |-> TRUE]
Fulfilled(value) == [state |-> "fulfilled", value |-> value, error |-> "none"]
Rejected(error) == [state |-> "rejected", value |-> NoValue, error |-> error]

analyzeTranscript(labels, arg) ==
    LET sentimentResult == SentimentAnalyze(labels, arg)
        speakingPace == calculateSpeakingPace(arg)
    IN  IF sentimentResult.threw \/ speakingPace.threw THEN Rejected("TypeError")
        ELSE
        LET text == arg.text
            sentimentScore == normalizeSentimentScore(sentimentResult.score)
            clarityScore == calculateClarityScore(text)
            engagementScore == calculateEngagementScore(text)
            questionRelevanceScore == calculateQuestionRelevance(text)
        IN  Fulfilled(
              [sentimentScore         |-> sentimentScore,
               sentimentLabel         |-> getSentimentLabel(sentimentScore),
               keyTopics              |-> extractKeyTopics(text),
               speakingPace           |-> speakingPace.value,
               clarityScore           |-> clarityScore,
               engagementScore        |-> engagementScore,
               questionRelevanceScore |-> questionRelevanceScore,
               overallScore           |-> calculateOverallScore(
                   [sentimentScore         |-> sentimentScore,
                    clarityScore           |-> clarityScore,
                    engagementScore        |-> engagementScore,
                    questionRelevanceScore |-> questionRelevanceScore,
                    speakingPace           |-> normalizeSpeakingPace(speakingPace.value)]),
               detailedAnalysis       |->
                   [wordCount           |-> DocWordCount(text),
                    avgWordsPerSentence |-> calculateAvgWordsPerSentence(text),
                    questionCount       |-> Len(Questions(text)),
                    positiveWords       |-> sentimentResult.positive,
                    negativeWords       |-> sentimentResult.negative,
                    namedEntities       |-> extractNamedEntities(text)]])

---------------------------------------------------------------------------
(* The database, the requests and the jobs: their state before any request *)

TranscriptIds == 1..NumTranscripts
\* an id that no row of transcripts has
MissingId == NumTranscripts + 1
Requests == 1..MaxRequests

\* the rows of scoring_criteria that initializeDatabase inserts, the weight
\* in hundredths (DECIMAL(3,2)), enabled by default
DefaultCriteria ==
    LET Criterion(name, weight) == [name |-> name, weight |-> weight, enabled |-> TRUE]
    IN  <<Criterion("sentiment_analysis", 20), Criterion("key_topics", 15),
          Criterion("speaking_pace", 15), Criterion("clarity", 20),
          Criterion("engagement", 15), Criterion("question_relevance", 15)>>

\* every transcript as the upload handler inserts it: status 'uploaded', no
\* text; scoring_criteria as initializeDatabase leaves it
InitialDb ==
    [status   |-> [t \in TranscriptIds |-> "uploaded"],
     text     |-> [t \in TranscriptIds |-> Null],
     results  |-> <<>>,
     criteria |-> DefaultCriteria]

NoRequests == [r \in Requests |-> [pc |-> "new", id |-> MissingId, code |-> 0]]
\* a job: where it stands, its transcript, the text transcribed, the promise
\* of the analyzer, and the error its catch has caught
NoJobs ==
    [r \in Requests |->
        [pc |-> "none", id |-> MissingId, text |-> <<>>, promise |-> NoValue,
         error |-> "none"]]

\* the analysis of a response that has none
NoAnalysis == [none |-> TRUE]

Response(code, status, transcriptText, analysis) ==
    [code |-> code, status |-> status, transcriptText |-> transcriptText,
     analysis |-> analysis]

Idle ==
    /\ db = InitialDb /\ requests = NoRequests /\ jobs = NoJobs
    /\ response = Response(0, "", <<>>, NoAnalysis)

---------------------------------------------------------------------------
(* Texts composed from an outline: the caller writes sentences, each a list *)
(* of words and the characters that end it, joins the words of a sentence   *)
(* and the sentences of the text with one blank each, and may put a blank   *)
(* before and after the whole                                               *)

Sentence(words, end, passive) == [words |-> words, end |-> end, passive |-> passive]

Outline(lead, sentences, trail) == [lead |-> lead, sentences |-> sentences, trail |-> trail]

\* the outline of the empty string
NoOutline == Outline(FALSE, <<>>, FALSE)

\* n times the word w
Repeat(w, n) == [i \in 1..n |-> w]

\* the words with one blank between each two
JoinWords(words) ==
    [i \in 1..(2 * Len(words) - 1) |-> IF i % 2 = 1 THEN words[(i + 1) \div 2] ELSE " "]

SentenceText(s) == (IF s.words = <<>> THEN <<>> ELSE JoinWords(s.words)) \o s.end

RECURSIVE JoinSentences(_)
JoinSentences(sentences) ==
    IF sentences = <<>> THEN <<>>
    ELSE IF Len(sentences) = 1 THEN SentenceText(sentences[1])
    ELSE SentenceText(Head(sentences)) \o <<" ">> \o JoinSentences(Tail(sentences))

\* the text the caller passes for an outline
TextOf(o) ==
    (IF o.lead THEN <<" ">> ELSE <<>>) \o JoinSentences(o.sentences)
    \o (IF o.trail THEN <<" ">> ELSE <<>>)

\* a sentence of n words: w repeated, in the passive voice ("was played ...")
\* or not, ended by a full stop
Prose(w, n, passive) ==
    Sentence(IF passive THEN <<"was", "played">> \o Repeat(w, n - 2) ELSE Repeat(w, n),
             <<".">>, passive)

ProseSentences(w) ==
    {Prose(w, n, FALSE) : n \in 1..MaxWords} \cup {Prose(w, n, TRUE) : n \in 2..MaxWords}

\* one sentence of up to MaxWords words, or two
ProseOutlines ==
    {Outline(FALSE, <<s1>>, FALSE) : s1 \in ProseSentences("you")}
    \cup {Outline(FALSE, <<s1, s2>>, FALSE) :
            s1 \in ProseSentences("you"), s2 \in ProseSentences("we")}

\* up to MaxLongWords words without any punctuation, a blank before and after or not
LongOutlines ==
    {Outline(lead, IF n = 0 THEN <<>> ELSE <<Sentence(Repeat("you", n), <<>>, FALSE)>>, trail) :
        n \in 0..MaxLongWords, lead \in BOOLEAN, trail \in BOOLEAN}

\* the sentences of a dialogue: a statement, a question with its mark, a
\* question without a mark
DialogueSentences ==
    {Sentence(<<"You">>, <<".">>, FALSE),
     Sentence(<<"we">>, <<"?">>, FALSE),
     Sentence(<<"what", "you">>, <<".">>, FALSE)}

DialogueOutlines ==
    {Outline(FALSE, ss, FALSE) : ss \in SeqsUpTo(DialogueSentences, MaxSentences)}

\* c times "you" and d times each other interactive word in one sentence
\* that m exclamation marks end (a full stop if none), then k short questions
EngagedOutlines ==
    LET EngagedWords(c, d) ==
            Repeat("you", c) \o Repeat("we", d) \o Repeat("us", d) \o Repeat("our", d)
            \o Repeat("together", d) \o Repeat("think", d) \o Repeat("feel", d)
            \o Repeat("believe", d)
    IN  {Outline(FALSE,
                 <<Sentence(EngagedWords(c, d),
                            IF m = 0 THEN <<".">> ELSE Repeat("!", m), FALSE)>>
                 \o Repeat(Sentence(<<"great">>, <<"?">>, FALSE), k),
                 FALSE) :
            c \in 1..MaxOccurrences, d \in 0..MaxOccurrences, m \in 0..MaxMarks,
            k \in 0..MaxQuestions}

\* the words a caller lists as topics, one sentence each: nouns in either
\* case, nouns of three characters, named entities, and a word that is no noun
TopicPool ==
    <<"Fraud", "market", "fraud", "tax", "budget", "Alice", "client", "IBM", "Rio",
      "report", "Paris", "project", "Market", "meeting", "Google", "contract",
      "invoice", "product", "you">>

\* k words of the pool, from its i-th on and around
TopicOutlines ==
    {Outline(FALSE,
             [j \in 1..k |-> Sentence(<<TopicPool[((i + j - 2) % Len(TopicPool)) + 1]>>,
                                       <<".">>, FALSE)],
             FALSE) :
        i \in 1..Len(TopicPool), k \in 1..MaxTopicWords}

MaxStatements == 10

\* q questions and then t exclamations, each a sentence of ten words, a
\* positive word and every interactive word; k sentences of three words in
\* the passive voice, one of them negative
ExtremeOutlines ==
    LET Lively(end) ==
            Sentence(<<"great", "you", "we", "us", "our", "together", "think", "feel",
                       "believe", "you">>, <<end>>, FALSE)
        Dull == Sentence(<<"was", "played", "fraud">>, <<".">>, TRUE)
    IN  {Outline(FALSE, Repeat(Lively("?"), q) \o Repeat(Lively("!"), t), FALSE) :
            q \in 0..MaxQuestions, t \in 0..MaxStatements}
        \cup {Outline(FALSE, Repeat(Dull, k), FALSE) : k \in 1..MaxSentences}

Outlines ==
    ProseOutlines \cup LongOutlines \cup DialogueOutlines \cup EngagedOutlines
    \cup TopicOutlines \cup ExtremeOutlines

---------------------------------------------------------------------------
(* Calls *)

NoCall == [made |-> FALSE]
Call(labels, arg) == [made |-> TRUE, arg |-> arg, promise |-> analyzeTranscript(labels, arg)]

NonStrings == {Null, Undefined}

\* the arguments of the specification Spec: every text up to MaxLen, null, undefined
Inputs == {Str(t) : t \in TextsUpTo(MaxLen)} \cup NonStrings

Init ==
    /\ sentiment = AfinnLabels
    /\ outline = NoOutline
    /\ pending \in Inputs
    /\ earlier = NoCall
    /\ last = NoCall
    /\ appended = <<>>
    /\ Idle

\* one call of analyzeTranscript(pending); the function holds no await, so the
\* call runs to its return in one step
AnalyzeTranscript ==
    /\ ~last.made
    /\ last' = Call(sentiment, pending)
    /\ sentiment' = SentimentAfterAnalyze(sentiment, pending)
    /\ UNCHANGED <<outline, pending, earlier, appended, jobVars, response>>

Next == AnalyzeTranscript

Spec == Init /\ [][Next]_vars

---------------------------------------------------------------------------
(* Calls with the texts composed from the outlines *)

InitOutline ==
    /\ sentiment = AfinnLabels
    /\ outline \in Outlines
    /\ pending = Str(TextOf(outline))
    /\ earlier = NoCall
    /\ last = NoCall
    /\ appended = <<>>
    /\ Idle

SpecOutline == InitOutline /\ [][Next]_vars

---------------------------------------------------------------------------
(* Calls with a long text and then with the same text and one more word *)

InitPace ==
    /\ sentiment = AfinnLabels
    /\ outline \in LongOutlines
    /\ pending = Str(TextOf(outline))
    /\ earlier = NoCall
    /\ last = NoCall
    /\ appended = <<>>
    /\ Idle

\* the caller appends a blank and the word w to the text and has it analyzed
AnalyzeLonger(w) ==
    /\ last.made
    /\ ~earlier.made
    /\ earlier' = last
    /\ appended' = <<w>>
    /\ last' = Call(sentiment, Str(last.arg.text \o <<" ", w>>))
    /\ sentiment' = SentimentAfterAnalyze(sentiment, Str(last.arg.text \o <<" ", w>>))
    /\ UNCHANGED <<outline, pending, jobVars, response>>

NextPace ==
    \/ AnalyzeTranscript
    \/ \E w \in {"you", "great"} : AnalyzeLonger(w)

SpecPace == InitPace /\ [][NextPace]_vars

---------------------------------------------------------------------------
(* Histories of calls: any call after any other, on the one shared          *)
(* sentiment object (an analyzer instance has no field of its own)          *)

HistInputs == {Str(t) : t \in TextsUpTo(MaxHistLen)} \cup NonStrings

InitHistory ==
    /\ sentiment = AfinnLabels
    /\ outline = NoOutline
    /\ pending = Str(<<>>)
    /\ earlier = NoCall
    /\ last = NoCall
    /\ appended = <<>>
    /\ Idle

\* a further call; the earlier call kept for comparison stays
AnalyzeNext(arg) ==
    /\ last' = Call(sentiment, arg)
    /\ sentiment' = SentimentAfterAnalyze(sentiment, arg)
    /\ UNCHANGED <<outline, pending, earlier, appended, jobVars, response>>

\* a further call; the call before it is kept for comparison
AnalyzeNextKeeping(arg) ==
    /\ last.made
    /\ earlier' = last
    /\ last' = Call(sentiment, arg)
    /\ sentiment' = SentimentAfterAnalyze(sentiment, arg)
    /\ UNCHANGED <<outline, pending, appended, jobVars, response>>

NextHistory == \E arg \in HistInputs : AnalyzeNext(arg) \/ AnalyzeNextKeeping(arg)

SpecHistory == InitHistory /\ [][NextHistory]_vars

---------------------------------------------------------------------------
(* Calls while the rows of scoring_criteria are edited.  No code of the     *)
(* repository writes the table after initializeDatabase: an edit is a       *)
(* statement that whoever administers the database runs.                    *)

MaxCriteriaLen == 2

\* the table as inserted, with every row deleted, with every row disabled,
\* with one weight raised to 1.00, with one weight set to 0.00
CriteriaTables ==
    LET Disabled(table) == [i \in DOMAIN table |-> [table[i] EXCEPT !.enabled = FALSE]]
        Reweighted(table, name, weight) ==
            [i \in DOMAIN table |->
                IF table[i].name = name THEN [table[i] EXCEPT !.weight = weight]
                ELSE table[i]]
    IN  {DefaultCriteria, <<>>, Disabled(DefaultCriteria),
         Reweighted(DefaultCriteria, "sentiment_analysis", 100),
         Reweighted(DefaultCriteria, "clarity", 0)}

InitCriteria ==
    /\ sentiment = AfinnLabels
    /\ outline = NoOutline
    /\ pending \in {Str(t) : t \in TextsUpTo(MaxCriteriaLen)}
    /\ earlier = NoCall
    /\ last = NoCall
    /\ appended = <<>>
    /\ Idle

\* the rows of scoring_criteria are changed, disabled or deleted
EditCriteria(table) ==
    /\ table # db.criteria
    /\ db' = [db EXCEPT !.criteria = table]
    /\ UNCHANGED <<sentiment, callVars, requests, jobs>>

\* a second call with the same text; the first is kept for comparison
AnalyzeAgain ==
    /\ last.made
    /\ ~earlier.made
    /\ earlier' = last
    /\ last' = Call(sentiment, pending)
    /\ sentiment' = SentimentAfterAnalyze(sentiment, pending)
    /\ UNCHANGED <<outline, pending, appended, jobVars, response>>

NextCriteria ==
    \/ AnalyzeTranscript
    \/ \E table \in CriteriaTables : EditCriteria(table)
    \/ AnalyzeAgain

SpecCriteria == InitCriteria /\ [][NextCriteria]_vars

---------------------------------------------------------------------------
(* Texts that grow: a seed text is analyzed, then the text with lexicon     *)
(* words appended, each after a blank                                       *)

PositiveLexicon == {w \in DOMAIN AfinnLabels : AfinnLabels[w] > 0}
NegativeLexicon == {w \in DOMAIN AfinnLabels : AfinnLabels[w] < 0}

SamePolarity(w, words) ==
    \/ w \in PositiveLexicon /\ \A i \in 1..Len(words) : words[i] \in PositiveLexicon
    \/ w \in NegativeLexicon /\ \A i \in 1..Len(words) : words[i] \in NegativeLexicon

InitAppend ==
    /\ sentiment = AfinnLabels
    /\ outline = NoOutline
    /\ pending \in {Str(t) : t \in TextsUpTo(MaxSeedLen)}
    /\ earlier = NoCall
    /\ last = NoCall
    /\ appended = <<>>
    /\ Idle

AnalyzeSeed ==
    /\ ~last.made
    /\ last' = Call(sentiment, pending)
    /\ sentiment' = SentimentAfterAnalyze(sentiment, pending)
    /\ UNCHANGED <<outline, pending, earlier, appended, jobVars, response>>

CanAppend == last.made /\ Len(last.arg.text) < Len(pending.text) + 2 * MaxAppends

\* the latest text with one more word is analyzed and compared with the latest
AnalyzeAppended(w) ==
    /\ CanAppend
    /\ earlier' = last
    /\ appended' = <<w>>
    /\ last' = Call(sentiment, Str(last.arg.text \o <<" ", w>>))
    /\ sentiment' = SentimentAfterAnalyze(sentiment, Str(last.arg.text \o <<" ", w>>))
    /\ UNCHANGED <<outline, pending, jobVars, response>>

\* the latest text with one more word of the same polarity is analyzed and
\* compared with the text the appending started from
AnalyzeAppendedMore(w) ==
    /\ CanAppend
    /\ appended # <<>>
    /\ SamePolarity(w, appended)
    /\ appended' = Append(appended, w)
    /\ last' = Call(sentiment, Str(last.arg.text \o <<" ", w>>))
    /\ sentiment' = SentimentAfterAnalyze(sentiment, Str(last.arg.text \o <<" ", w>>))
    /\ UNCHANGED <<outline, pending, earlier, jobVars, response>>

NextAppend ==
    \/ AnalyzeSeed
    \/ \E w \in DOMAIN AfinnLabels : AnalyzeAppended(w) \/ AnalyzeAppendedMore(w)

SpecAppend == InitAppend /\ [][NextAppend]_vars

---------------------------------------------------------------------------
(* The analysis_results row of a result, and what the GET endpoint makes of *)
(* it.  A JSON text is the sequence of its tokens: the punctuation "[", "]", *)
(* "{", "}", ",", Punctuation(":"), the strings and the numbers.                         *)

\* an integer as the fraction it is
Num(n) == [num |-> n, den |-> 1]

Punctuation(c) == [kind |-> "punctuation", text |-> c, number |-> 0]
JsonString(s) == [kind |-> "string", text |-> s, number |-> 0]
JsonNumber(n) == [kind |-> "number", text |-> "", number |-> n]

\* JSON.stringify of an array of strings
StringifyArray(array) ==
    <<Punctuation("[")>>
    \o [i \in 1..(IF array = <<>> THEN 0 ELSE 2 * Len(array) - 1) |->
           IF i % 2 = 1 THEN JsonString(array[(i + 1) \div 2]) ELSE Punctuation(",")]
    \o <<Punctuation("]")>>

\* JSON.stringify of detailedAnalysis: its members in the order of the literal
StringifyDetailedAnalysis(d) ==
    <<Punctuation("{")>>
    \o <<JsonString("wordCount"), Punctuation(":"), JsonNumber(d.wordCount), Punctuation(",")>>
    \o <<JsonString("avgWordsPerSentence"), Punctuation(":"), JsonNumber(d.avgWordsPerSentence), Punctuation(",")>>
    \o <<JsonString("questionCount"), Punctuation(":"), JsonNumber(d.questionCount), Punctuation(",")>>
    \o <<JsonString("positiveWords"), Punctuation(":")>> \o StringifyArray(d.positiveWords) \o <<Punctuation(",")>>
    \o <<JsonString("negativeWords"), Punctuation(":")>> \o StringifyArray(d.negativeWords) \o <<Punctuation(",")>>
    \o <<JsonString("namedEntities"), Punctuation(":")>> \o StringifyArray(d.namedEntities)
    \o <<Punctuation("}")>>

\* a DECIMAL(5,2) column that cuts the digits after the second decimal off
DecimalColumn_Truncated(f) == [hundredths |-> (f.num * 100) \div f.den]
\* a DECIMAL(5,2) column keeps the hundredths of the number nearest to f
DecimalColumn(f) == [hundredths |-> MathRound(f.num * 100, f.den)]

\* the row that the INSERT of processTranscriptInBackground writes
AnalysisRow(id, analysis) ==
    [transcript_id            |-> id,
     sentiment_score          |-> DecimalColumn(Num(analysis.sentimentScore)),
     sentiment_label          |-> analysis.sentimentLabel,
     key_topics               |-> StringifyArray(analysis.keyTopics),
     speaking_pace            |-> DecimalColumn(Num(analysis.speakingPace)),
     clarity_score            |-> DecimalColumn(analysis.clarityScore),
     engagement_score         |-> DecimalColumn(Num(analysis.engagementScore)),
     question_relevance_score |-> DecimalColumn(Num(analysis.questionRelevanceScore)),
     overall_score            |-> DecimalColumn(Num(analysis.overallScore)),
     detailed_analysis        |-> StringifyDetailedAnalysis(analysis.detailedAnalysis)]

\* the driver hands a DECIMAL over as its text, digits with two decimals
DecimalText(column) == [units |-> column.hundredths \div 100, cents |-> column.hundredths % 100]

\* parseFloat of such a text
ParseFloat(text) == [num |-> text.units * 100 + text.cents, den |-> 100]

\* x || 0 for a number x
NumberOrZero(f) == IF f.num = 0 THEN Num(0) ELSE f

\* the values between the brackets of a JSON array of strings
ParseArray(tokens) ==
    LET items == SelectSeq(tokens, LAMBDA t : t.kind = "string")
    IN  [i \in 1..Len(items) |-> items[i].text]

\* the member key of the object that JSON.parse makes of the tokens
ParsedMember(tokens, key) ==
    LET at == {i \in 1..(Len(tokens) - 1) :
                  tokens[i] = JsonString(key) /\ tokens[i + 1] = Punctuation(":")}
    IN  IF at = {} THEN [found |-> FALSE]
        ELSE LET first == (CHOOSE i \in at : \A j \in at : i <= j) + 2
                 close == CHOOSE i \in first..Len(tokens) :
                              /\ tokens[i] = Punctuation("]")
                              /\ \A j \in first..(i - 1) : tokens[j] # Punctuation("]")
             IN  IF tokens[first] = Punctuation("[")
                 THEN [found |-> TRUE, value |-> ParseArray(SubSeq(tokens, first, close))]
                 ELSE [found |-> TRUE, value |-> tokens[first].number]

\* member || 0 and member || []
MemberOrZero(member) ==
    IF member.found /\ member.value # 0 THEN member.value ELSE 0
MemberOrEmpty(member) == IF member.found THEN member.value ELSE <<>>

\* the analysis object of the GET endpoint's response for a row
ResponseAnalysis(row) ==
    LET keyTopics == ParseArray(row.key_topics)
        detailedAnalysis == row.detailed_analysis
    IN  [sentimentScore         |-> NumberOrZero(ParseFloat(DecimalText(row.sentiment_score))),
         sentimentLabel         |-> IF row.sentiment_label = "" THEN "Unknown"
                                    ELSE row.sentiment_label,
         keyTopics              |-> keyTopics,
         speakingPace           |-> NumberOrZero(ParseFloat(DecimalText(row.speaking_pace))),
         clarityScore           |-> NumberOrZero(ParseFloat(DecimalText(row.clarity_score))),
         engagementScore        |-> NumberOrZero(ParseFloat(DecimalText(row.engagement_score))),
         questionRelevanceScore |->
             NumberOrZero(ParseFloat(DecimalText(row.question_relevance_score))),
         overallScore           |-> NumberOrZero(ParseFloat(DecimalText(row.overall_score))),
         detailedAnalysis       |->
             [wordCount           |-> MemberOrZero(ParsedMember(detailedAnalysis, "wordCount")),
              avgWordsPerSentence |->
                  MemberOrZero(ParsedMember(detailedAnalysis, "avgWordsPerSentence")),
              questionCount       |-> MemberOrZero(ParsedMember(detailedAnalysis, "questionCount")),
              positiveWords       |-> MemberOrEmpty(ParsedMember(detailedAnalysis, "positiveWords")),
              negativeWords       |-> MemberOrEmpty(ParsedMember(detailedAnalysis, "negativeWords")),
              namedEntities       |->
                  MemberOrEmpty(ParsedMember(detailedAnalysis, "namedEntities"))]]

---------------------------------------------------------------------------
(* POST /api/process (src/pages/api/process.ts): the handler and the        *)
(* background job it starts.  A step is what runs between two awaits; a     *)
(* statement takes effect when its await resolves.  The pool holds 10       *)
(* connections, more than the requests and jobs here can hold at once.      *)

\* the texts a transcription returns (result.text || '' is always a string)
JobTexts == {<<>>, <<"great">>}

SetRequest(r, pc, code) == [requests EXCEPT ![r].pc = pc, ![r].code = code]
SetJob(r, pc) == [jobs EXCEPT ![r].pc = pc]
\* the job's catch has caught the error and awaits the UPDATE to 'failed'
Catch(r, error) == [jobs EXCEPT ![r].pc = "failing", ![r].error = error]
\* the job's catch is left
Caught(r) == [jobs EXCEPT ![r].pc = "done", ![r].error = "none"]
SetStatus(id, status) ==
    IF id \in TranscriptIds THEN [db EXCEPT !.status[id] = status] ELSE db

InitJobs ==
    /\ sentiment = AfinnLabels
    /\ outline = NoOutline
    /\ pending = Str(<<>>)
    /\ earlier = NoCall
    /\ last = NoCall
    /\ appended = <<>>
    /\ Idle

\* a POST with a transcriptId arrives; the handler awaits pool.getConnection()
Post(r, id) ==
    /\ requests[r].pc = "new"
    /\ requests' = [requests EXCEPT ![r].pc = "getConnection", ![r].id = id]
    /\ UNCHANGED <<sentiment, callVars, db, jobs>>

\* the connection is there; the handler awaits the SELECT
HandlerConnected(r) ==
    /\ requests[r].pc = "getConnection"
    /\ requests' = SetRequest(r, "select", 0)
    /\ UNCHANGED <<sentiment, callVars, db, jobs>>

\* getConnection rejects, outside the try: the request ends in a 500
HandlerConnectFails(r) ==
    /\ requests[r].pc = "getConnection"
    /\ requests' = SetRequest(r, "done", 500)
    /\ UNCHANGED <<sentiment, callVars, db, jobs>>

\* the SELECT returns no row: 404, the connection released
HandlerNotFound(r) ==
    /\ requests[r].pc = "select"
    /\ requests[r].id \notin TranscriptIds
    /\ requests' = SetRequest(r, "done", 404)
    /\ UNCHANGED <<sentiment, callVars, db, jobs>>

\* the SELECT returns the row; the handler awaits the UPDATE to 'processing'
HandlerSelected(r) ==
    /\ requests[r].pc = "select"
    /\ requests[r].id \in TranscriptIds
    /\ requests' = SetRequest(r, "update", 0)
    /\ UNCHANGED <<sentiment, callVars, db, jobs>>

\* the SELECT or the UPDATE rejects: the catch awaits the UPDATE to 'failed'
HandlerStatementFails(r) ==
    /\ requests[r].pc \in {"select", "update"}
    /\ requests' = SetRequest(r, "failing", 0)
    /\ UNCHANGED <<sentiment, callVars, db, jobs>>

\* the UPDATE to 'processing' is done; processTranscriptInBackground is
\* called and runs to its await of pool.getConnection(); 200, release
HandlerUpdated(r) ==
    /\ requests[r].pc = "update"
    /\ db' = SetStatus(requests[r].id, "processing")
    /\ jobs' = [jobs EXCEPT ![r].pc = "getConnection", ![r].id = requests[r].id]
    /\ requests' = SetRequest(r, "done", 200)
    /\ UNCHANGED <<sentiment, callVars>>

\* the catch's UPDATE to 'failed' is done: 500, release
HandlerFailed(r) ==
    /\ requests[r].pc = "failing"
    /\ db' = SetStatus(requests[r].id, "failed")
    /\ requests' = SetRequest(r, "done", 500)
    /\ UNCHANGED <<sentiment, callVars, jobs>>

\* the catch's UPDATE rejects and is logged: 500, release
HandlerFailedFails(r) ==
    /\ requests[r].pc = "failing"
    /\ requests' = SetRequest(r, "done", 500)
    /\ UNCHANGED <<sentiment, callVars, db, jobs>>

\* the job has its connection, finds the file and awaits transcribeFile
JobConnected(r) ==
    /\ jobs[r].pc = "getConnection"
    /\ jobs' = SetJob(r, "transcribing")
    /\ UNCHANGED <<sentiment, callVars, db, requests>>

\* the job has its connection and the file is not there: the catch awaits
\* the UPDATE to 'failed'
JobFileNotFound(r) ==
    /\ jobs[r].pc = "getConnection"
    /\ jobs' = Catch(r, "File not found")
    /\ UNCHANGED <<sentiment, callVars, db, requests>>

\* getConnection rejects, outside the try: the job ends there
JobConnectFails(r) ==
    /\ jobs[r].pc = "getConnection"
    /\ jobs' = SetJob(r, "crashed")
    /\ UNCHANGED <<sentiment, callVars, db, requests>>

\* transcribeFile resolves; the job awaits the UPDATE of transcript_text
JobTranscribed(r, text) ==
    /\ jobs[r].pc = "transcribing"
    /\ jobs' = [jobs EXCEPT ![r].pc = "savingText", ![r].text = text]
    /\ UNCHANGED <<sentiment, callVars, db, requests>>

\* an awaited step of the try rejects: the catch awaits the UPDATE to 'failed'
JobStepFails(r) ==
    /\ jobs[r].pc \in {"transcribing", "savingText", "inserting", "completing"}
    /\ jobs' = Catch(r, IF jobs[r].pc = "transcribing" THEN "transcription" ELSE "statement")
    /\ UNCHANGED <<sentiment, callVars, db, requests>>

\* transcript_text is stored; analyzeTranscript is called and runs to its
\* return (it holds no await); the job awaits the promise it returned
JobTextSaved(r) ==
    /\ jobs[r].pc = "savingText"
    /\ jobs[r].id \in TranscriptIds
    /\ db' = [db EXCEPT !.text[jobs[r].id] = Str(jobs[r].text)]
    /\ jobs' = [jobs EXCEPT ![r].pc = "analyzed",
                            ![r].promise = analyzeTranscript(sentiment, Str(jobs[r].text))]
    /\ sentiment' = SentimentAfterAnalyze(sentiment, Str(jobs[r].text))
    /\ UNCHANGED <<callVars, requests>>

\* the job resumes with the promise's result: fulfilled, it awaits the
\* INSERT; rejected, its catch awaits the UPDATE to 'failed'
JobAnalysisAwaited(r) ==
    /\ jobs[r].pc = "analyzed"
    /\ jobs' = IF jobs[r].promise.state = "fulfilled" THEN SetJob(r, "inserting")
               ELSE Catch(r, jobs[r].promise.error)
    /\ UNCHANGED <<sentiment, callVars, db, requests>>

\* the analysis_results row is inserted; the job awaits the UPDATE to 'completed'
JobInserted(r) ==
    /\ jobs[r].pc = "inserting"
    /\ db' = [db EXCEPT !.results =
                 Append(@, AnalysisRow(jobs[r].id, jobs[r].promise.value))]
    /\ jobs' = SetJob(r, "completing")
    /\ UNCHANGED <<sentiment, callVars, requests>>

\* the status is set to 'completed' without waiting for the INSERT
JobCompleted_BeforeInsert(r) ==
    /\ jobs[r].pc \in {"inserting", "completing"}
    /\ db' = SetStatus(jobs[r].id, "completed")
    /\ jobs' = SetJob(r, "done")
    /\ UNCHANGED <<sentiment, callVars, requests>>
\* the status is 'completed'; the connection is released
JobCompleted(r) ==
    /\ jobs[r].pc = "completing"
    /\ db' = SetStatus(jobs[r].id, "completed")
    /\ jobs' = SetJob(r, "done")
    /\ UNCHANGED <<sentiment, callVars, requests>>

\* the catch's UPDATE to 'failed' is done; the connection is released
JobFailed(r) ==
    /\ jobs[r].pc = "failing"
    /\ db' = SetStatus(jobs[r].id, "failed")
    /\ jobs' = Caught(r)
    /\ UNCHANGED <<sentiment, callVars, requests>>

\* the catch's UPDATE rejects and is logged; the connection is released
JobFailedFails(r) ==
    /\ jobs[r].pc = "failing"
    /\ jobs' = Caught(r)
    /\ UNCHANGED <<sentiment, callVars, db, requests>>

NextJobs ==
    \E r \in Requests :
        \/ \E id \in TranscriptIds \cup {MissingId} : Post(r, id)
        \/ HandlerConnected(r)
        \/ HandlerConnectFails(r)
        \/ HandlerNotFound(r)
        \/ HandlerSelected(r)
        \/ HandlerStatementFails(r)
        \/ HandlerUpdated(r)
        \/ HandlerFailed(r)
        \/ HandlerFailedFails(r)
        \/ JobConnected(r)
        \/ JobFileNotFound(r)
        \/ JobConnectFails(r)
        \/ \E text \in JobTexts : JobTranscribed(r, text)
        \/ JobStepFails(r)
        \/ JobTextSaved(r)
        \/ JobAnalysisAwaited(r)
        \/ JobInserted(r)
        \/ JobCompleted(r)
        \/ JobFailed(r)
        \/ JobFailedFails(r)

SpecJobs == InitJobs /\ [][NextJobs]_vars

\* the steps of a handler after its request has arrived, and of a job: the
\* event loop runs every continuation whose await has settled, whether the
\* await resolved or rejected
HandlerStep(r) ==
    \/ HandlerConnected(r)
    \/ HandlerConnectFails(r)
    \/ HandlerNotFound(r)
    \/ HandlerSelected(r)
    \/ HandlerStatementFails(r)
    \/ HandlerUpdated(r)
    \/ HandlerFailed(r)
    \/ HandlerFailedFails(r)

JobStep(r) ==
    \/ JobConnected(r)
    \/ JobFileNotFound(r)
    \/ JobConnectFails(r)
    \/ \E text \in JobTexts : JobTranscribed(r, text)
    \/ JobStepFails(r)
    \/ JobTextSaved(r)
    \/ JobAnalysisAwaited(r)
    \/ JobInserted(r)
    \/ JobCompleted(r)
    \/ JobFailed(r)
    \/ JobFailedFails(r)

\* every handler and every job that can take a step takes one
SpecJobsFair ==
    /\ InitJobs
    /\ [][NextJobs]_vars
    /\ \A r \in Requests : WF_vars(HandlerStep(r)) /\ WF_vars(JobStep(r))

---------------------------------------------------------------------------
(* The GET endpoint of a transcript, and a job that stores the result of *)
(* the text composed from an outline                                      *)

\* how the driver hands a JSON column over: as the text stored, or as the
\* value already parsed from it
JsonColumns == {"text", "value"}

\* the handler's response when rows[0] of the SELECT is the transcript joined
\* with row k of analysis_results (k = 0: with no row, its columns NULL)
GetResponse(id, k, columns) ==
    LET transcriptText == IF db.text[id] = Null THEN <<>> ELSE db.text[id].text
    IN  IF id \notin TranscriptIds THEN Response(404, "", <<>>, NoAnalysis)
        ELSE IF db.status[id] # "completed" \/ k = 0
        THEN Response(200, db.status[id], transcriptText, NoAnalysis)
        \* JSON.parse of a value that is no text throws: the catch answers 500
        ELSE IF columns = "value" THEN Response(500, "", <<>>, NoAnalysis)
        ELSE Response(200, db.status[id], transcriptText, ResponseAnalysis(db.results[k]))

\* a GET of a transcript: the handler's SELECT, whose LEFT JOIN finds the
\* rows of analysis_results of the transcript, and its response
Get(id) ==
    /\ LET joined == {k \in 1..Len(db.results) : db.results[k].transcript_id = id}
       IN  \E columns \in JsonColumns :
           \E k \in IF joined = {} THEN {0} ELSE joined :
               response' = GetResponse(id, k, columns)
    /\ UNCHANGED <<sentiment, outline, pending, earlier, last, appended, jobVars>>

\* the words of a sentence of the outlines whose results are stored
MaxStoredWords == 11

\* the empty text, one or two sentences, a list of topics, a sentence of
\* interactive words with questions of a positive word
StoredOutlines ==
    LET StoredSentences(w) ==
            {Prose(w, n, FALSE) : n \in 1..MaxStoredWords}
            \cup {Prose(w, n, TRUE) : n \in 2..MaxStoredWords}
    IN  {NoOutline}
        \cup {Outline(FALSE, <<s1>>, FALSE) : s1 \in StoredSentences("you")}
        \cup {Outline(FALSE, <<s1, s2>>, FALSE) :
                s1 \in StoredSentences("you"), s2 \in StoredSentences("we")}
        \cup TopicOutlines
        \cup {o \in EngagedOutlines :
                 Len(o.sentences[1].words) = 1 /\ Len(o.sentences[1].end) = 1}

\* request 1 has set transcript 1 to 'processing' and started its job, which
\* awaits transcribeFile
InitStore ==
    /\ sentiment = AfinnLabels
    /\ outline \in StoredOutlines
    /\ pending = Str(TextOf(outline))
    /\ earlier = NoCall
    /\ last = NoCall
    /\ appended = <<>>
    /\ db = [InitialDb EXCEPT !.status[1] = "processing"]
    /\ requests = [NoRequests EXCEPT ![1] = [pc |-> "done", id |-> 1, code |-> 200]]
    /\ jobs = [NoJobs EXCEPT ![1].pc = "transcribing", ![1].id = 1]
    /\ response = Response(0, "", <<>>, NoAnalysis)

NextStore ==
    \/ \E r \in Requests :
        \/ JobTranscribed(r, TextOf(outline))
        \/ JobTextSaved(r)
        \/ JobAnalysisAwaited(r)
        \/ JobInserted(r)
        \/ JobCompleted(r)
    \/ \E id \in TranscriptIds \cup {MissingId} : Get(id)

SpecStore == InitStore /\ [][NextStore]_vars


---------------------------------------------------------------------------
(* Properties *)

IsFulfilled(call) == call.made /\ call.promise.state = "fulfilled"
IsRejected(call) == call.made /\ call.promise.state = "rejected"
IsString(call) == call.made /\ call.arg.type = "string"

InRange(x) == x \in Int /\ 0 <= x /\ x <= 100
\* a fraction that is a number (its denominator is not 0) within [0, 100]
FractionInRange(f) ==
    /\ f.num \in Int /\ f.den \in Int /\ f.den > 0
    /\ 0 <= f.num /\ f.num <= 100 * f.den

\* C1: for every input string (empty, whitespace-only, punctuation-only and
\* single-word text included) the call returns sentimentScore, clarityScore,
\* engagementScore, questionRelevanceScore and overallScore that are each a
\* defined number within [0, 100].
C1_ScoresInRange ==
    IsString(last) =>
        /\ IsFulfilled(last)
        /\ InRange(last.promise.value.sentimentScore)
        /\ FractionInRange(last.promise.value.clarityScore)
        /\ InRange(last.promise.value.engagementScore)
        /\ InRange(last.promise.value.questionRelevanceScore)
        /\ InRange(last.promise.value.overallScore)

\* a text of three negative words, whose raw polarity sum is below -10, was scored
C1_Witness ==
    /\ IsFulfilled(last)
    /\ Len(last.promise.value.detailedAnalysis.negativeWords) = 3
    /\ last.promise.value.sentimentScore = 0
    /\ last.promise.value.overallScore > 0

\* C4 as stated: a string argument never fails, and null or undefined fails
\* with an InvalidInput error.
C4_InvalidInputSignalled ==
    last.made =>
        /\ (last.arg.type = "string" => IsFulfilled(last))
        /\ (last.arg.type # "string" =>
                IsRejected(last) /\ last.promise.error = "InvalidInput")

\* C4, amended: a string argument, the empty string included, never fails;
\* null or undefined makes the call fail, and what the caller gets is the
\* rejection of the promise with the runtime's TypeError.
C4_FailureSemantics ==
    last.made =>
        /\ (last.arg.type = "string" => IsFulfilled(last))
        /\ (last.arg.type # "string" =>
                IsRejected(last) /\ last.promise.error = "TypeError")

\* the call with undefined was made and was rejected
C4_Witness == last.made /\ last.arg = Undefined /\ IsRejected(last)

\* C5: for the empty string the call returns wordCount 0, clarityScore 0,
\* engagementScore 0, questionRelevanceScore 75, sentimentScore 50, and the
\* overallScore that the weights give for these and the normalized pace of 0
\* words (clamp(100 - |0 - 150|, 0, 100) = 0): round(0.20*50 + 0.20*75) = 25.
C5_EmptyString ==
    (last.made /\ last.arg = Str(<<>>)) =>
        /\ IsFulfilled(last)
        /\ last.promise.value.detailedAnalysis.wordCount = 0
        /\ last.promise.value.clarityScore.num = 0
        /\ last.promise.value.engagementScore = 0
        /\ last.promise.value.questionRelevanceScore = 75
        /\ last.promise.value.sentimentScore = 50
        /\ 100 * last.promise.value.overallScore = 20 * 50 + 25 * 0 + 20 * 0 + 20 * 75 + 15 * 0

\* the empty string was analyzed
C5_Witness == IsFulfilled(last) /\ last.arg = Str(<<>>)

RawScore(call) == SentimentAnalyze(AfinnLabels, call.arg).score

\* C7: with r the raw polarity sum of the text, sentimentScore is (r + 10) * 5
\* when that lies within [0, 100], 0 when r <= -10 and 100 when r >= 10.
C7_SentimentNormalization ==
    IsFulfilled(last) =>
        LET r == RawScore(last)
            score == last.promise.value.sentimentScore
        IN  /\ (r <= -10 => score = 0)
            /\ (r >= 10 => score = 100)
            /\ (((r + 10) * 5 >= 0 /\ (r + 10) * 5 <= 100) => score = (r + 10) * 5)

\* a text whose raw sum is below -10 was scored
C7_Witness ==
    /\ IsFulfilled(last) /\ RawScore(last) < -10
    /\ last.promise.value.sentimentScore = 0

\* C8: the label is a total function of sentimentScore with bands that do not
\* overlap: >= 70 Very Positive, [55, 70) Positive, [45, 55) Neutral,
\* [30, 45) Negative, < 30 Very Negative; a result carries the label of its
\* own sentimentScore.
C8_SentimentLabel ==
    IsFulfilled(last) =>
        LET score == last.promise.value.sentimentScore
            label == last.promise.value.sentimentLabel
        IN  /\ label \in {"Very Positive", "Positive", "Neutral", "Negative", "Very Negative"}
            /\ (label = "Very Positive" <=> score >= 70)
            /\ (label = "Positive" <=> (55 <= score /\ score < 70))
            /\ (label = "Neutral" <=> (45 <= score /\ score < 55))
            /\ (label = "Negative" <=> (30 <= score /\ score < 45))
            /\ (label = "Very Negative" <=> score < 30)

\* a result whose score is the lower end of the top band was labelled
C8_Witness ==
    /\ IsFulfilled(last)
    /\ last.promise.value.sentimentScore = 70
    /\ last.promise.value.sentimentLabel = "Very Positive"

RECURSIVE Spaced(_)
Spaced(words) ==
    IF words = <<>> THEN <<>> ELSE <<" ", Head(words)>> \o Spaced(Tail(words))

\* last's text is earlier's text followed by the appended words
Extended ==
    /\ IsFulfilled(earlier) /\ IsFulfilled(last)
    /\ last.arg.text = earlier.arg.text \o Spaced(appended)

AllIn(words, S) == \A i \in 1..Len(words) : words[i] \in S

EndsWithNegator(text) ==
    LET tokens == Tokenize(text)
    IN  Len(tokens) > 0 /\ tokens[Len(tokens)] \in Negators

\* C9 as stated: appending a non-empty sequence of positive-lexicon words
\* makes sentimentScore strictly greater, unless it is already 100, and then it
\* stays 100.
C9_PositiveStrictlyIncreases ==
    (Extended /\ appended # <<>> /\ AllIn(appended, PositiveLexicon)) =>
        IF earlier.promise.value.sentimentScore = 100
        THEN last.promise.value.sentimentScore = 100
        ELSE last.promise.value.sentimentScore > earlier.promise.value.sentimentScore

\* C9, amended: for a text T whose last word is not a negator, appending a
\* non-empty sequence P of positive-lexicon words makes sentimentScore
\* strictly greater, unless it is already 100 (it stays 100) or the raw sum of
\* T followed by P is still at most -10 (the score was 0 and stays 0).
C9_PositiveMonotone ==
    (Extended /\ appended # <<>> /\ AllIn(appended, PositiveLexicon)
     /\ ~EndsWithNegator(earlier.arg.text)) =>
        IF earlier.promise.value.sentimentScore = 100
        THEN last.promise.value.sentimentScore = 100
        ELSE IF RawScore(last) <= -10
        THEN earlier.promise.value.sentimentScore = 0 /\ last.promise.value.sentimentScore = 0
        ELSE last.promise.value.sentimentScore > earlier.promise.value.sentimentScore

\* a positive word was appended to a text clamped at 0, and the score stayed 0
C9_Witness ==
    /\ Extended /\ appended # <<>> /\ AllIn(appended, PositiveLexicon)
    /\ ~EndsWithNegator(earlier.arg.text)
    /\ earlier.promise.value.sentimentScore = 0
    /\ last.promise.value.sentimentScore = 0

\* C10 as stated: appending a sequence of negative-lexicon words never makes
\* sentimentScore greater.
C10_NegativeNeverIncreases ==
    (Extended /\ AllIn(appended, NegativeLexicon)) =>
        last.promise.value.sentimentScore <= earlier.promise.value.sentimentScore

\* C10, amended: for a text T whose last word is not a negator, appending a
\* sequence of negative-lexicon words never makes sentimentScore greater.
C10_NegativeMonotone ==
    (Extended /\ AllIn(appended, NegativeLexicon) /\ ~EndsWithNegator(earlier.arg.text)) =>
        last.promise.value.sentimentScore <= earlier.promise.value.sentimentScore

\* two negative words were appended and the score fell
C10_Witness ==
    /\ Extended /\ Len(appended) >= 2 /\ AllIn(appended, NegativeLexicon)
    /\ ~EndsWithNegator(earlier.arg.text)
    /\ last.promise.value.sentimentScore < earlier.promise.value.sentimentScore

LengthAward(w) ==
    IF 10 <= w /\ w <= 20 THEN 2
    ELSE IF (5 <= w /\ w < 10) \/ (20 < w /\ w < 30) THEN 1
    ELSE 0

\* the points of a sentence the caller wrote: its length award, and 1 when
\* it is not in the passive voice
WrittenPoints(s) == LengthAward(Len(s.words)) + (IF s.passive THEN 0 ELSE 1)

\* C11: a sentence of w words gets the length award 2 when 10 <= w <= 20, 1
\* when 5 <= w < 10 or 20 < w < 30 and 0 otherwise, never both awards; with
\* the point for not matching the passive-voice pattern it contributes at
\* most 3.  Read off the clarityScore of the texts of one sentence, which is
\* 100 * points / 3.
C11_LengthAwards ==
    (IsFulfilled(last) /\ Len(outline.sentences) = 1) =>
        LET s == outline.sentences[1]
            clarity == last.promise.value.clarityScore
        IN  /\ WrittenPoints(s) <= 3
            /\ 3 * clarity.num = 100 * WrittenPoints(s) * clarity.den

\* a passive sentence of 15 words was scored: 2 points of 3, no more
C11_Witness ==
    /\ IsFulfilled(last) /\ Len(outline.sentences) = 1
    /\ Len(outline.sentences[1].words) = 15 /\ outline.sentences[1].passive
    /\ 3 * last.promise.value.clarityScore.num = 200 * last.promise.value.clarityScore.den

RECURSIVE SumWrittenPoints(_)
SumWrittenPoints(sentences) ==
    IF sentences = <<>> THEN 0
    ELSE WrittenPoints(Head(sentences)) + SumWrittenPoints(Tail(sentences))

\* C12: for a text of n >= 1 sentences clarityScore is
\* min(100, 100 * (sum of the sentences' points) / (3 * n)); for a text of no
\* sentence clarityScore is 0 and avgWordsPerSentence is 0; no score is the
\* result of a division by zero.
C12_ClarityAggregation ==
    IsFulfilled(last) =>
        LET n == Len(outline.sentences)
            points == SumWrittenPoints(outline.sentences)
            clarity == last.promise.value.clarityScore
        IN  /\ clarity.den # 0
            /\ n = 0 => /\ clarity.num = 0
                        /\ last.promise.value.detailedAnalysis.avgWordsPerSentence = 0
            /\ n >= 1 => IF 100 * points >= 100 * 3 * n
                         THEN clarity.num = 100 * clarity.den
                         ELSE clarity.num * 3 * n = 100 * points * clarity.den

\* two sentences with different points were scored: 3 and 1 of 6
C12_Witness ==
    /\ IsFulfilled(last) /\ Len(outline.sentences) = 2
    /\ WrittenPoints(outline.sentences[1]) = 3
    /\ WrittenPoints(outline.sentences[2]) = 1
    /\ 6 * last.promise.value.clarityScore.num = 400 * last.promise.value.clarityScore.den

\* all the words the caller wrote, and all the characters that end sentences
RECURSIVE WrittenWords(_)
WrittenWords(sentences) ==
    IF sentences = <<>> THEN <<>> ELSE Head(sentences).words \o WrittenWords(Tail(sentences))

RECURSIVE WrittenEnds(_)
WrittenEnds(sentences) ==
    IF sentences = <<>> THEN <<>> ELSE Head(sentences).end \o WrittenEnds(Tail(sentences))

\* a sentence the caller wrote as a question: with its mark, or opening
\* with a question word
WrittenQuestion(s) ==
    (\E i \in 1..Len(s.end) : s.end[i] = "?") \/ (s.words # <<>> /\ s.words[1] = "what")

WrittenQuestionCount == Cardinality({i \in 1..Len(outline.sentences) :
                                        WrittenQuestion(outline.sentences[i])})

\* the occurrences of a lower-case word among the written words, in either case
Occurrences(w) ==
    LET words == WrittenWords(outline.sentences)
    IN  Cardinality({i \in 1..Len(words) :
                        words[i] = w \/ (w = "you" /\ words[i] = "You")})

Capped(x, cap) == IF x <= cap THEN x ELSE cap

\* C13: with q questions, e exclamation marks and c_w whole-word
\* occurrences, in either case, of each w of you, we, us, our, together,
\* think, feel, believe, engagementScore is
\* min(100, min(5q, 30) + min(3e, 20) + the sum over w of min(2 * c_w, 10));
\* the cap of 10 is applied to each word on its own.
C13_EngagementFormula ==
    IsFulfilled(last) =>
        LET q == WrittenQuestionCount
            ends == WrittenEnds(outline.sentences)
            e == Cardinality({i \in 1..Len(ends) : ends[i] = "!"})
        IN  last.promise.value.engagementScore =
                Capped(Capped(5 * q, 30) + Capped(3 * e, 20)
                       + Capped(2 * Occurrences("you"), 10) + Capped(2 * Occurrences("we"), 10)
                       + Capped(2 * Occurrences("us"), 10) + Capped(2 * Occurrences("our"), 10)
                       + Capped(2 * Occurrences("together"), 10)
                       + Capped(2 * Occurrences("think"), 10)
                       + Capped(2 * Occurrences("feel"), 10)
                       + Capped(2 * Occurrences("believe"), 10), 100)

\* a text of 20 times "you" and nothing else was scored: 10, not 40
C13_Witness ==
    /\ IsFulfilled(last) /\ Len(outline.sentences) = 1
    /\ outline.sentences[1].words = [i \in 1..20 |-> "you"]
    /\ outline.sentences[1].end = <<".">>
    /\ last.promise.value.engagementScore = 10

\* C14 as stated: for every text that contains no '?' character,
\* questionRelevanceScore is exactly 75.
C14_NoQuestionMarkGives75 ==
    (IsFulfilled(last) /\ \A i \in 1..Len(last.arg.text) : last.arg.text[i] # "?") =>
        last.promise.value.questionRelevanceScore = 75

\* C14, amended: for every text in which no sentence is a question, neither
\* by a question mark at its end nor by its wording (a sentence that opens
\* with a question word is counted as a question without any mark),
\* questionRelevanceScore is exactly 75.
C14_NoQuestionGives75 ==
    (IsFulfilled(last) /\ WrittenQuestionCount = 0) =>
        last.promise.value.questionRelevanceScore = 75

\* a text of three statements and no question was scored 75
C14_Witness ==
    /\ IsFulfilled(last) /\ Len(outline.sentences) = 3 /\ WrittenQuestionCount = 0
    /\ last.promise.value.questionRelevanceScore = 75

\* the sentences the caller wrote without a question mark
WrittenStatementCount ==
    Cardinality({i \in 1..Len(outline.sentences) :
                    \A j \in 1..Len(outline.sentences[i].end) :
                        outline.sentences[i].end[j] # "?"})

\* C15: for a text of q >= 1 questions and s statements (sentences without
\* '?'), questionRelevanceScore is 90 when 2 <= s / q <= 5 and 70 otherwise;
\* over all inputs the score is 70, 75 or 90.
C15_QuestionRelevance ==
    IsFulfilled(last) =>
        LET q == WrittenQuestionCount
            st == WrittenStatementCount
            score == last.promise.value.questionRelevanceScore
        IN  /\ score \in {70, 75, 90}
            /\ q >= 1 => (IF 2 * q <= st /\ st <= 5 * q THEN score = 90 ELSE score = 70)

\* a text of 2 questions and 4 statements, the ratio at its lower end, was scored 90
C15_Witness ==
    /\ IsFulfilled(last) /\ WrittenQuestionCount = 2 /\ WrittenStatementCount = 4
    /\ Len(outline.sentences) = 6
    /\ last.promise.value.questionRelevanceScore = 90

\* the pieces that splitting the written text on whitespace gives: the
\* words, and an empty piece before a leading and after a trailing blank
\* (the empty string splits into one empty piece)
WrittenPieces ==
    LET words == Len(WrittenWords(outline.sentences))
    IN  IF words = 0 THEN (IF outline.lead \/ outline.trail THEN 2 ELSE 1)
        ELSE words + (IF outline.lead THEN 1 ELSE 0) + (IF outline.trail THEN 1 ELSE 0)

ClampedPace(pace) ==
    LET deviation == IF pace >= 150 THEN pace - 150 ELSE 150 - pace
    IN  IF 100 - deviation < 0 THEN 0
        ELSE IF 100 - deviation > 100 THEN 100
        ELSE 100 - deviation

\* C17: what the aggregator is fed for the pace is
\* clamp(100 - |speakingPace - 150|, 0, 100); the speakingPace field of the
\* result is the estimate itself (the number of pieces up to 150, 150
\* beyond), never the normalized value, and overallScore is the rounded
\* weighted sum taken with the normalized value.
C17_PaceNormalization ==
    IsFulfilled(last) =>
        LET v == last.promise.value
            estimate == IF WrittenPieces <= 150 THEN WrittenPieces ELSE 150
            w == (20 * v.sentimentScore + 20 * v.engagementScore
                  + 20 * v.questionRelevanceScore + 15 * ClampedPace(estimate))
                 * v.clarityScore.den + 25 * v.clarityScore.num
            d == 100 * v.clarityScore.den
        IN  /\ v.speakingPace = estimate
            /\ 2 * v.overallScore * d - d <= 2 * w
            /\ 2 * w < 2 * v.overallScore * d + d

\* a text of 100 words was analyzed: the field holds 100, the aggregator was fed 50
C17_Witness ==
    /\ IsFulfilled(last) /\ WrittenPieces = 100
    /\ last.promise.value.speakingPace = 100
    /\ ClampedPace(last.promise.value.speakingPace) = 50

\* C18: keyTopics has at most 10 entries and holds no string twice,
\* whatever the number of nouns and named entities the tagger reports.
C18_KeyTopicsBounded ==
    IsFulfilled(last) =>
        LET topics == last.promise.value.keyTopics
        IN  /\ Len(topics) <= 10
            /\ \A i, j \in 1..Len(topics) : i # j => topics[i] # topics[j]

\* a text that names every word of the pool, more than 10 topics, some
\* twice, was analyzed
C18_Witness ==
    /\ IsFulfilled(last) /\ Len(outline.sentences) = 18
    /\ outline.sentences[1].words = <<"Fraud">>
    /\ Len(last.promise.value.keyTopics) = 10

\* the topic a written word is discovered as in the pass over the nouns
\* (lower-cased, more than 3 characters), "" for none
NounTopic(w) ==
    CASE w \in {"fraud", "Fraud"}   -> "fraud"
      [] w \in {"market", "Market"} -> "market"
      [] w \in {"budget", "client", "report", "project", "meeting", "contract",
                "invoice", "product"} -> w
      [] w = "Alice"  -> "alice"
      [] w = "Paris"  -> "paris"
      [] w = "Google" -> "google"
      [] OTHER        -> ""

\* the topics discovered: the nouns in the order of the text, then the
\* people, the places and the organizations
Discovered ==
    LET words == WrittenWords(outline.sentences)
        lower(ws) == [i \in 1..Len(ws) |->
                        CASE ws[i] = "Alice" -> "alice" [] ws[i] = "Paris" -> "paris"
                          [] ws[i] = "Rio" -> "rio" [] ws[i] = "Google" -> "google"
                          [] ws[i] = "IBM" -> "ibm" [] OTHER -> ws[i]]
    IN  SelectSeq([i \in 1..Len(words) |-> NounTopic(words[i])], LAMBDA t : t # "")
        \o lower(SelectSeq(words, LAMBDA w : w = "Alice"))
        \o lower(SelectSeq(words, LAMBDA w : w \in {"Paris", "Rio"}))
        \o lower(SelectSeq(words, LAMBDA w : w \in {"Google", "IBM"}))

\* the elements of a sequence, each at its first occurrence
RECURSIVE Distinct(_)
Distinct(seq) ==
    IF seq = <<>> THEN <<>>
    ELSE LET front == SubSeq(seq, 1, Len(seq) - 1)
         IN  IF \E i \in 1..Len(front) : front[i] = seq[Len(seq)]
             THEN Distinct(front)
             ELSE Append(Distinct(front), seq[Len(seq)])

\* C19: keyTopics is the first 10 entries, in discovery order, of the
\* deduplicated sequence of the lower-cased nouns longer than 3 characters
\* followed by the lower-cased people, places and organizations: no topic
\* discovered later precedes one discovered earlier, and an entity among
\* the first 10 distinct entries is in keyTopics.
C19_KeyTopicsOrder ==
    IsFulfilled(last) =>
        LET distinct == Distinct(Discovered)
        IN  last.promise.value.keyTopics =
                SubSeq(distinct, 1, IF Len(distinct) <= 10 THEN Len(distinct) ELSE 10)

\* a text in which an organization of three characters is written before a
\* place of three characters and a noun after both: the noun comes first,
\* then the place, then the organization
C19_Witness ==
    /\ IsFulfilled(last)
    /\ WrittenWords(outline.sentences) = <<"IBM", "Rio", "report">>
    /\ last.promise.value.keyTopics = <<"report", "rio", "ibm">>

\* the words of last's text, and the polarity the lexicon scorer counts for
\* the i-th of them: the listed polarity, with its sign turned after "not"
TextWords == SelectSeq(last.arg.text, LAMBDA x : x \notin {" ", ".", "?", "!"})

Polarity(i) ==
    LET listed == CASE TextWords[i] = "great" -> 3
                    [] TextWords[i] = "bad"   -> -3
                    [] TextWords[i] = "fraud" -> -4
                    [] OTHER                  -> 0
    IN  IF i > 1 /\ TextWords[i - 1] = "not" THEN -listed ELSE listed

\* the words counted as positive and as negative, in order of occurrence
CountedPositive ==
    LET at == SelectSeq([i \in 1..Len(TextWords) |-> i], LAMBDA i : Polarity(i) > 0)
    IN  [k \in 1..Len(at) |-> TextWords[at[k]]]
CountedNegative ==
    LET at == SelectSeq([i \in 1..Len(TextWords) |-> i], LAMBDA i : Polarity(i) < 0)
    IN  [k \in 1..Len(at) |-> TextWords[at[k]]]

Reverse(seq) == [i \in 1..Len(seq) |-> seq[Len(seq) + 1 - i]]

\* C20 as stated: positiveWords and negativeWords are exactly the tokens the
\* lexicon scorer matched as positive and as negative, in order of
\* occurrence, a word listed once per occurrence counted.
C20_MatchedWordsInOrder ==
    IsFulfilled(last) =>
        /\ last.promise.value.detailedAnalysis.positiveWords = CountedPositive
        /\ last.promise.value.detailedAnalysis.negativeWords = CountedNegative

\* C20, amended: positiveWords and negativeWords are exactly the tokens the
\* lexicon scorer matched as positive and as negative, in the reverse of
\* their order of occurrence (the last match first), a word listed once per
\* occurrence counted; an occurrence is never in both lists and a word the
\* lexicon does not list is in neither.
C20_MatchedWordsReversed ==
    IsFulfilled(last) =>
        LET positiveWords == last.promise.value.detailedAnalysis.positiveWords
            negativeWords == last.promise.value.detailedAnalysis.negativeWords
        IN  /\ positiveWords = Reverse(CountedPositive)
            /\ negativeWords = Reverse(CountedNegative)
            /\ Len(positiveWords) + Len(negativeWords)
                 = Cardinality({i \in 1..Len(TextWords) : Polarity(i) # 0})
            /\ \A i \in 1..Len(positiveWords) : positiveWords[i] \in {"great", "bad", "fraud"}
            /\ \A i \in 1..Len(negativeWords) : negativeWords[i] \in {"great", "bad", "fraud"}

\* two different negative words were matched: the later one is listed first
C20_Witness ==
    /\ IsFulfilled(last)
    /\ CountedNegative = <<"bad", "fraud">>
    /\ last.promise.value.detailedAnalysis.negativeWords = <<"fraud", "bad">>

---------------------------------------------------------------------------
(* The stored result read back *)

\* two fractions that are the same number
SameNumber(f, g) == f.num * g.den = g.num * f.den

\* g is a number of hundredths, and no number of hundredths is nearer to f
NearestHundredth(f, g) ==
    /\ (100 * g.num) % g.den = 0
    /\ 2 * Abs(100 * g.num * f.den - 100 * f.num * g.den) <= f.den * g.den

\* the latest GET was answered with an analysis object
HasAnalysis == response.code = 200 /\ response.analysis # NoAnalysis

\* the result that job 1 stored
StoredResult == jobs[1].promise.value

\* the fields of the response's analysis other than clarityScore equal the
\* fields of the result that was stored
OtherFieldsPreserved ==
    LET a == StoredResult
        g == response.analysis
    IN  /\ SameNumber(Num(a.sentimentScore), g.sentimentScore)
        /\ g.sentimentLabel = a.sentimentLabel
        /\ g.keyTopics = a.keyTopics
        /\ SameNumber(Num(a.speakingPace), g.speakingPace)
        /\ SameNumber(Num(a.engagementScore), g.engagementScore)
        /\ SameNumber(Num(a.questionRelevanceScore), g.questionRelevanceScore)
        /\ SameNumber(Num(a.overallScore), g.overallScore)
        /\ g.detailedAnalysis = a.detailedAnalysis

C22_SharedWordCount ==
    IsString(last) /\ IsFulfilled(last) =>
        SplitLength(last.arg.text) = last.promise.value.detailedAnalysis.wordCount

---------------------------------------------------------------------------
(* The jobs of POST /api/process *)

\* the jobs on a transcript that were started and have not ended
ActiveJobs(id) ==
    {r \in Requests : jobs[r].id = id /\ jobs[r].pc \notin {"none", "done", "crashed"}}

\* C24: under every interleaving of POST /api/process requests, at most one
\* background job is active for a given transcript id at any time.
C24_OneJobPerTranscript ==
    \A id \in TranscriptIds : Cardinality(ActiveJobs(id)) <= 1

\* the rows of analysis_results of a transcript
RowsOf(database, id) ==
    {k \in 1..Len(database.results) : database.results[k].transcript_id = id}

\* a step in which job r starts
Starts(r) == jobs[r].pc = "none" /\ jobs'[r].pc # "none"
\* a step in which job r calls the analyzer
CallsAnalyzer(r) == jobs[r].promise = NoValue /\ jobs'[r].promise # NoValue
\* a step that inserts a row of analysis_results
Inserts == Len(db'.results) > Len(db.results)
\* a step in which the status of a transcript becomes 'completed'
Completes(id) == db.status[id] # "completed" /\ db'.status[id] = "completed"

\* the order of the stages, as what a step may do
StagesInOrder ==
    /\ \A r \in Requests :
           /\ Starts(r) => db'.status[jobs'[r].id] = "processing"
           /\ CallsAnalyzer(r) =>
                  /\ jobs[r].pc = "savingText"
                  /\ db'.text[jobs[r].id] = Str(jobs[r].text)
    /\ Inserts =>
           \E r \in Requests :
               /\ jobs[r].pc = "inserting" /\ jobs'[r].pc = "completing"
               /\ jobs[r].promise.state = "fulfilled"
               /\ db'.results =
                      Append(db.results, AnalysisRow(jobs[r].id, jobs[r].promise.value))
    /\ \A id \in TranscriptIds :
           Completes(id) =>
               \E r \in Requests :
                   /\ jobs[r].id = id
                   /\ jobs[r].pc # "done" /\ jobs'[r].pc = "done"
                   /\ \E k \in RowsOf(db, id) :
                          db.results[k] = AnalysisRow(id, jobs[r].promise.value)

\* C25: a job starts with the status set to 'processing'; the analyzer is
\* called only for a job whose transcription has returned and with the text
\* that is then stored as transcript_text; a row is inserted only by a job
\* whose analysis has returned, and holds that result; the status becomes
\* 'completed' only in a step of a job whose row has been inserted.
C25_StageOrdering == [][StagesInOrder]_vars

\* a job went through every stage: the text is stored, its row is there and
\* the status is 'completed'
C25_Witness ==
    \E r \in Requests :
        /\ jobs[r].pc = "done"
        /\ jobs[r].id \in TranscriptIds
        /\ db.status[jobs[r].id] = "completed"
        /\ db.text[jobs[r].id] = Str(jobs[r].text)
        /\ RowsOf(db, jobs[r].id) # {}

\* the errors of the file lookup, of the transcription and of the analyzer
StageErrors == {"File not found", "transcription", "TypeError"}

\* C26: a job whose file lookup, transcription or analysis has failed
\* performs no further stage, inserts no row and does not set 'completed':
\* its one further step sets the status of its transcript to 'failed'.
C26_FailurePropagation ==
    [][\A r \in Requests :
          jobs[r].pc = "failing" /\ jobs[r].error \in StageErrors /\ jobs'[r] # jobs[r] =>
              /\ jobs'[r].pc = "done"
              /\ db'.results = db.results
              /\ db'.status[jobs[r].id] = "failed"]_vars

\* C27: every transcript whose status is 'processing' eventually has the
\* status 'completed' or 'failed', when every handler and every job keeps
\* taking its steps, whichever of them fail.
C27_JobTermination ==
    \A id \in TranscriptIds :
        (db.status[id] = "processing") ~> (db.status[id] \in {"completed", "failed"})

\* a transcript whose status is 'completed' has a transcript_text and at
\* least one row of analysis_results
CompletedHasTextAndRow(id) ==
    db.status[id] = "completed" => db.text[id] # Null /\ RowsOf(db, id) # {}

\* C28 as stated: in every reachable state a 'completed' transcript has a
\* stored transcript_text and at least one analysis_results row, and a
\* 'failed' transcript has no analysis_results row.
C28_StatusMatchesRows ==
    \A id \in TranscriptIds :
        /\ CompletedHasTextAndRow(id)
        /\ db.status[id] = "failed" => RowsOf(db, id) = {}

\* C28 amended: in every reachable state, overlapping jobs included, a
\* 'completed' transcript has a stored transcript_text and at least one
\* analysis_results row (a 'failed' transcript may have rows as well).
C28_CompletedHasTextAndRow ==
    \A id \in TranscriptIds : CompletedHasTextAndRow(id)

\* two jobs ran on one transcript, which is 'completed' and has a row, and
\* one of them is still running
C28_Witness ==
    \E id \in TranscriptIds :
        /\ db.status[id] = "completed"
        /\ RowsOf(db, id) # {}
        /\ \E r1, r2 \in Requests :
               /\ r1 # r2
               /\ jobs[r1].id = id /\ jobs[r1].pc = "done"
               /\ jobs[r2].id = id /\ jobs[r2].pc \notin {"none", "done", "crashed"}

---------------------------------------------------------------------------
(* The ranges of the overall score and of the pace *)

\* C29: for every input string questionRelevanceScore is never below 70
\* and never above 90, and overallScore lies in [14, 98]: 0 and 100 are
\* not reached.
C29_OverallRange ==
    IsString(last) =>
        /\ IsFulfilled(last)
        /\ 70 <= last.promise.value.questionRelevanceScore
        /\ last.promise.value.questionRelevanceScore <= 90
        /\ 14 <= last.promise.value.overallScore
        /\ last.promise.value.overallScore <= 98

\* a text whose every score is at its highest was scored: 98 overall
C29_Witness ==
    /\ IsFulfilled(last)
    /\ last.promise.value.sentimentScore = 100
    /\ last.promise.value.engagementScore = 100
    /\ last.promise.value.questionRelevanceScore = 90
    /\ last.promise.value.overallScore = 98

\* the pieces that the latest text splits into on whitespace, by the outline
\* and the word appended: a word appended after a blank adds no piece
WrittenPiecesNow ==
    IF appended = <<>> THEN WrittenPieces
    ELSE IF outline.trail \/ (outline.sentences = <<>> /\ outline.lead) THEN WrittenPieces
    ELSE WrittenPieces + 1

\* C30: for every input string, the empty string included, speakingPace is
\* an integer from 1 to 150, the number of pieces the text splits into on
\* whitespace up to 150 and 150 beyond; the aggregator is fed
\* max(0, speakingPace - 50) for it; and neither the estimate nor what the
\* aggregator is fed decreases when a word is appended to the text.
C30_PaceRange ==
    IsString(last) =>
        /\ IsFulfilled(last)
        /\ LET v == last.promise.value
               fed == Max(0, v.speakingPace - 50)
               w == (20 * v.sentimentScore + 20 * v.engagementScore
                     + 20 * v.questionRelevanceScore + 15 * fed)
                    * v.clarityScore.den + 25 * v.clarityScore.num
               d == 100 * v.clarityScore.den
           IN  /\ v.speakingPace \in Int
               /\ 1 <= v.speakingPace /\ v.speakingPace <= 150
               /\ v.speakingPace = Min(WrittenPiecesNow, 150)
               /\ normalizeSpeakingPace(v.speakingPace) = fed
               /\ 2 * v.overallScore * d - d <= 2 * w
               /\ 2 * w < 2 * v.overallScore * d + d
               /\ IsFulfilled(earlier) =>
                      v.speakingPace >= earlier.promise.value.speakingPace

\* a text of 50 words and the text with one more word were analyzed: the
\* estimates are 50 and 51, the aggregator was fed 0 and 1
C30_Witness ==
    /\ IsFulfilled(earlier) /\ IsFulfilled(last)
    /\ earlier.promise.value.speakingPace = 50
    /\ last.promise.value.speakingPace = 51
    /\ normalizeSpeakingPace(last.promise.value.speakingPace) = 1

====
